---- MODULE Spec2Model ----
(***************************************************************************)
(* Model of _acquire.py: the Acquire class, a cache-or-fetch loader.       *)
(*                                                                         *)
(*   get_data(use_cache, cache_data)  = _pre_preparation(_load_data(...))  *)
(*   _load_data: if os.path.exists(file_name) and use_cache: read the csv  *)
(*               else: read_sql, then to_csv(index = False) if cache_data  *)
(*                                                                         *)
(* Two specifications share the file system and the remote source:        *)
(*   Spec      one caller; every get_data call is one atomic action.       *)
(*   SpecConc  two loader instances on the same file_name whose calls      *)
(*             interleave statement by statement (and line by line while   *)
(*             to_csv writes).                                             *)
(***************************************************************************)
EXTENDS Integers, Sequences, FiniteSets, TLC

\* ------------------------------------------------------------------ bounds

\* Largest number of rows a remote table holds.
MaxRows == 1

\* --------------------------------------------------------------- datasets

\* Text of a cell as it stands in a csv file. "1" is a numeral, "a" is not.
Tokens == {"1", "a"}

\* Row labels pandas writes for a RangeIndex when index = True.
IndexLabels == <<"0", "1", "2", "3">>

Numeric(t) == t \in {"0", "1", "2", "3"}

\* A DataFrame: column names, one dtype per column, rows of cell texts.
\* An int64 cell 1 and an object cell "1" have the same text and differ in dtype.
DataFrame(columns, dtypes, rows) ==
    [columns |-> columns, dtypes |-> dtypes, rows |-> rows]

\* Placeholder where Python holds no DataFrame (an exception was raised).
NoDf == DataFrame(<<>>, <<>>, <<>>)

RowSeqs == UNION {[1..n -> {<<t>> : t \in Tokens}] : n \in 0..MaxRows}

\* One column "c" with either dtype over any rows.
Tables ==
    {DataFrame(<<"c">>, <<ty>>, r) : ty \in {"int64", "object"}, r \in RowSeqs}

\* The DataFrames read_sql can produce: an integer column holds numerals
\* only, and a result without rows has dtype object (pandas takes the dtype
\* from the values the driver returns).
DataFrames ==
    {d \in Tables :
        d.dtypes[1] = "int64" =>
            /\ d.rows # <<>>
            /\ \A i \in 1..Len(d.rows) : Numeric(d.rows[i][1])}

\* ------------------------------------------------------------ csv format

\* DataFrame.to_csv(path, index): the lines of the file, header line first.
\* With index = True every line gets a leading field: "" in the header, the
\* row label in the rows.  dtypes are not written.
to_csv_lines(df, index) ==
    LET header == IF index THEN <<"">> \o df.columns ELSE df.columns
        line(i) == IF index THEN <<IndexLabels[i]>> \o df.rows[i] ELSE df.rows[i]
    IN  <<header>> \o [i \in 1..Len(df.rows) |-> line(i)]

\* pd.read_csv raises EmptyDataError on a file with no header line.
Parsable(content) == Len(content) > 0

\* pd.read_csv(path) on a parsable file: the header names the columns (an
\* empty name becomes "Unnamed: 0"), and each column's dtype is inferred from
\* its cell texts: int64 when there are rows and all are numerals, else object.
read_csv(content) ==
    LET header == content[1]
        rows   == Tail(content)
        name(j) == IF header[j] = "" THEN "Unnamed: 0" ELSE header[j]
        dtype(j) ==
            IF rows # <<>> /\ \A i \in 1..Len(rows) : Numeric(rows[i][j])
            THEN "int64" ELSE "object"
    IN  DataFrame([j \in 1..Len(header) |-> name(j)],
                  [j \in 1..Len(header) |-> dtype(j)],
                  rows)

\* ------------------------------------------------------------- file system

\* The one file name loaders are constructed with, besides the default ''.
CachePath == "zillow.csv"
FileNames == {"", CachePath}

Absent == [exists |-> FALSE, content |-> <<>>]
Present(content) == [exists |-> TRUE, content |-> content]

\* os.path.exists(path): '' names no file.
path_exists(path, fl) == path # "" /\ fl.exists

\* What the file system answers when to_csv opens and writes the file:
\* "ok", "open_err" (open() raises, the file is untouched), or "io_err" after
\* n lines (the file was truncated by open() and holds the n lines written).
WriteAnswers ==
    {[kind |-> "ok", n |-> 0], [kind |-> "open_err", n |-> 0]}
        \cup {[kind |-> "io_err", n |-> k] : k \in 0..MaxRows}

\* open('') raises FileNotFoundError whatever the file system's state.
AnswerFor(path, wr) == IF path = "" THEN [kind |-> "open_err", n |-> 0] ELSE wr

\* The first n lines of a file's lines.
Prefix(lines, n) == SubSeq(lines, 1, IF n < Len(lines) THEN n ELSE Len(lines))

\* Mutant: to_csv opens the file in append mode.
FileAfterWriteAppend(fl, lines, wr) ==
    CASE wr.kind = "ok"       -> Present(fl.content \o lines)
      [] wr.kind = "open_err" -> fl
      [] OTHER                -> Present(fl.content \o Prefix(lines, wr.n))

\* Mutant: a failed write removes the partial file.
FileAfterWriteCleanup(fl, lines, wr) ==
    CASE wr.kind = "ok"       -> Present(lines)
      [] wr.kind = "open_err" -> fl
      [] OTHER                -> Absent

\* The file at `path` after to_csv(path, index) got the answer `wr`.
FileAfterWrite(fl, lines, wr) ==
    CASE wr.kind = "ok"       -> Present(lines)
      [] wr.kind = "open_err" -> fl
      [] OTHER                -> Present(Prefix(lines, wr.n))

\* ------------------------------------------------------------ remote source

\* The database the loaders query, and the default '' of __init__.
DataBases == {"", "zillow"}

\* Two queries, and the default '' of __init__.
Sqls == {"", "SELECT *", "SELECT * LIMIT 0"}

\* What read_sql produces: a DataFrame, or an exception (connection
\* resolution, connection or query error).
Unreachable == [ok |-> FALSE, df |-> NoDf]
Serves(df) == [ok |-> TRUE, df |-> df]

\* The states of the remote database: down, or up and holding a table.
RemoteStates == {Unreachable} \cup {Serves(d) : d \in DataFrames}

\* get_db_url(database_name): the connection target of the named database.
get_db_url(database_name) == [scheme |-> "mysql+pymysql", db |-> database_name]

\* pd.read_sql(sql, url) against the remote state `rem`: an error when no
\* database is named, the query is empty or the database is down; otherwise
\* the query's result over the table.
read_sql(sql, url, rem) ==
    IF url.db = "" \/ sql = "" \/ ~rem.ok THEN Unreachable
    ELSE IF sql = "SELECT * LIMIT 0"
         THEN Serves(DataFrame(rem.df.columns,
                               [j \in DOMAIN rem.df.columns |-> "object"], <<>>))
         ELSE rem

\* ------------------------------------------------------------------ loader

\* Acquire itself, and a child class that overrides _pre_preparation.
Classes == {"Acquire", "Child"}

\* Acquire.__init__: stores the three strings verbatim.
Loader(cls, file_name, database_name, sql) ==
    [cls |-> cls, file_name |-> file_name,
     database_name |-> database_name, sql |-> sql]

Loaders ==
    {Loader(c, f, d, q) : c \in Classes, f \in FileNames, d \in DataBases, q \in Sqls}

\* A child's override of the hook: it renames every column (upper case).
ChildPrePreparation(df) ==
    [df EXCEPT !.columns = [j \in DOMAIN df.columns |->
                               IF df.columns[j] = "c" THEN "C" ELSE df.columns[j]]]

\* Acquire._pre_preparation: returns df unless a child class overrides it.
pre_preparation(self, df) ==
    IF self.cls = "Acquire" THEN df ELSE ChildPrePreparation(df)

\* What _load_data did: the branch taken, what os.path.exists answered, the
\* number of read_sql calls, what read_sql produced, whether to_csv was called
\* and the file system's answer, the exception raised ("" for none), the
\* DataFrame returned, the file afterwards, and the statements run, in order.
Loaded(path, existed, fetches, fetched, wrote, wr, raised, df, fl, steps) ==
    [path |-> path, existed |-> existed, fetches |-> fetches, fetched |-> fetched,
     wrote |-> wrote, wr |-> wr, raised |-> raised, df |-> df, file |-> fl,
     steps |-> steps]

NoWrite == [kind |-> "none", n |-> 0]

\* Mutant: the file is read whenever it exists, whatever use_cache is.
UseCacheBranchIgnoresFlag(exists, use_cache) == exists

\* Line 127: the condition of the if.
UseCacheBranch(exists, use_cache) == exists /\ use_cache

\* Mutant: the fetched dataset is always written.
ShouldCacheAlways(cache_data) == TRUE

\* Line 135: the condition guarding to_csv.
ShouldCache(cache_data) == cache_data

\* Mutant: to_csv's default, index = True.
ToCsvIndexDefault == TRUE

\* Line 136: the index argument of to_csv.
ToCsvIndex == FALSE

\* Mutant: pd.read_csv(self.file_name, index_col = 0) takes the first column
\* as the index.
ReadCacheIndexCol(self, fl) ==
    IF Parsable(fl.content)
    THEN LET d == read_csv(fl.content)
         IN  Loaded("cache", TRUE, 0, Unreachable, FALSE, NoWrite, "",
                    DataFrame(Tail(d.columns), Tail(d.dtypes),
                              [i \in 1..Len(d.rows) |-> Tail(d.rows[i])]),
                    fl, <<"exists", "read_csv">>)
    ELSE Loaded("cache", TRUE, 0, Unreachable, FALSE, NoWrite, "EmptyDataError",
                NoDf, fl, <<"exists", "read_csv">>)

\* Mutant: an unparsable file is swallowed and an empty DataFrame returned.
ReadCacheSwallow(self, fl) ==
    Loaded("cache", TRUE, 0, Unreachable, FALSE, NoWrite, "",
           IF Parsable(fl.content) THEN read_csv(fl.content) ELSE NoDf,
           fl, <<"exists", "read_csv">>)

\* Lines 127-128: return pd.read_csv(self.file_name).
ReadCache(self, fl) ==
    IF Parsable(fl.content)
    THEN Loaded("cache", TRUE, 0, Unreachable, FALSE, NoWrite, "",
                read_csv(fl.content), fl, <<"exists", "read_csv">>)
    ELSE Loaded("cache", TRUE, 0, Unreachable, FALSE, NoWrite, "EmptyDataError",
                NoDf, fl, <<"exists", "read_csv">>)

\* Lines 135-138, once read_sql returned df: to_csv if cache_data, return df.
CacheAndReturn(self, fl, existed, got, cache_data, wr) ==
    IF ShouldCache(cache_data)
    THEN LET ans   == AnswerFor(self.file_name, wr)
             lines == to_csv_lines(got.df, ToCsvIndex)
             after == IF self.file_name = "" THEN fl
                      ELSE FileAfterWrite(fl, lines, ans)
         IN  IF ans.kind = "ok"
             THEN Loaded("remote", existed, 1, got, TRUE, ans, "", got.df, after,
                         <<"exists", "read_sql", "to_csv">>)
             ELSE Loaded("remote", existed, 1, got, TRUE, ans, "OSError", NoDf,
                         after, <<"exists", "read_sql", "to_csv">>)
    ELSE Loaded("remote", existed, 1, got, FALSE, NoWrite, "", got.df, fl,
                <<"exists", "read_sql">>)

\* Mutant: the cache file is opened for writing before the query runs.
FetchRemoteOpenFirst(self, fl, rem, existed, cache_data, wr) ==
    LET got == read_sql(self.sql, get_db_url(self.database_name), rem)
        opened == IF ShouldCache(cache_data) /\ self.file_name # ""
                  THEN Present(<<>>) ELSE fl
    IN  IF ~got.ok
        THEN Loaded("remote", existed, 1, got, FALSE, NoWrite, "DatabaseError",
                    NoDf, opened, <<"exists", "read_sql">>)
        ELSE CacheAndReturn(self, opened, existed, got, cache_data, wr)

\* Lines 131-138: the else branch.
FetchRemote(self, fl, rem, existed, cache_data, wr) ==
    LET got == read_sql(self.sql, get_db_url(self.database_name), rem)
    IN  IF ~got.ok
        THEN Loaded("remote", existed, 1, got, FALSE, NoWrite, "DatabaseError",
                    NoDf, fl, <<"exists", "read_sql">>)
        ELSE CacheAndReturn(self, fl, existed, got, cache_data, wr)

\* Acquire._load_data.
load_data(self, fl, rem, use_cache, cache_data, wr) ==
    LET exists == path_exists(self.file_name, fl)
    IN  IF UseCacheBranch(exists, use_cache)
        THEN ReadCache(self, fl)
        ELSE FetchRemote(self, fl, rem, exists, cache_data, wr)

\* What get_data did: _load_data's record, the number of hook calls and the
\* value returned to the caller (NoDf when an exception propagated).
Returned(l, hooks, ret, steps) ==
    [load |-> l, hooks |-> hooks, ret |-> ret, steps |-> steps]

\* Mutant: get_data returns what _load_data returned, the hook is not run.
get_data_without_hook(self, fl, rem, use_cache, cache_data, wr) ==
    LET l == load_data(self, fl, rem, use_cache, cache_data, wr)
    IN  IF l.raised # ""
        THEN Returned(l, 0, NoDf, l.steps)
        ELSE Returned(l, 0, l.df, l.steps \o <<"return">>)

\* Acquire.get_data: df = self._load_data(...); return self._pre_preparation(df).
get_data(self, fl, rem, use_cache, cache_data, wr) ==
    LET l == load_data(self, fl, rem, use_cache, cache_data, wr)
    IN  IF l.raised # ""
        THEN Returned(l, 0, NoDf, l.steps)
        ELSE Returned(l, 1, pre_preparation(self, l.df),
                      l.steps \o <<"_pre_preparation", "return">>)

\* ------------------------------------------------------------------- state

VARIABLES
    self,     \* the loader the caller holds (Spec)
    remote,   \* the state of the remote database
    file,     \* the file at CachePath
    last,     \* the get_data call just completed, if the last step was one,
              \* with what the call before it returned (Spec)
    procs     \* the two concurrent callers (SpecConc)

vars == <<self, remote, file, last, procs>>

\* No call has been made since the loader was constructed or the remote changed.
NoCall ==
    [called |-> FALSE, self |-> Loader("Acquire", "", "zillow", "SELECT *"),
     use_cache |-> TRUE, cache_data |-> TRUE, pre |-> Absent, again |-> FALSE,
     prevRet |-> NoDf, prevOk |-> FALSE, prevPath |-> "",
     out |-> Returned(Loaded("", FALSE, 0, Unreachable, FALSE, NoWrite, "", NoDf,
                             Absent, <<>>), 0, NoDf, <<>>)]

\* Files a loader can find at CachePath: none, an empty file, or any table
\* written by to_csv(index = False).
InitFiles ==
    {Absent, Present(<<>>)} \cup {Present(to_csv_lines(d, FALSE)) : d \in DataFrames}

\* What a reader found going on when it read the file: whether another
\* process was between open and close of to_csv, and that writer's lines,
\* its position, the file it had found and whether it was the only writer.
NoWriter == [active |-> FALSE, lines |-> <<>>, pos |-> 0, before |-> Absent,
             clean |-> FALSE]

\* A caller of SpecConc: the statement it is at, its loader and arguments,
\* its local df, and for to_csv the lines to write, the number written, the
\* file found at open and whether no other process wrote since.
IdleProc ==
    [pc |-> "idle", self |-> Loader("Acquire", CachePath, "zillow", "SELECT *"),
     use_cache |-> TRUE, cache_data |-> TRUE, df |-> NoDf, lines |-> <<>>,
     pos |-> 0, before |-> Absent, clean |-> FALSE, seen |-> Absent,
     during |-> NoWriter, ret |-> NoDf]

Procs == {1, 2}

Init ==
    /\ self \in Loaders
    /\ remote \in RemoteStates
    /\ file \in InitFiles
    /\ last = NoCall
    /\ procs = [p \in Procs |-> IdleProc]

\* ----------------------------------------------------------------- actions

\* An io error interrupts to_csv before the last line is written.
ValidAnswer(wr, out) ==
    /\ ~out.load.wrote => wr.kind = "ok"
    /\ out.load.wrote => out.load.wr = wr
    /\ (out.load.wrote /\ wr.kind = "io_err")
           => wr.n < Len(to_csv_lines(out.load.fetched.df, ToCsvIndex))

\* A caller constructs a loader: Acquire(file_name, database_name, sql).
Construct(cls, file_name, database_name, sql) ==
    /\ self' = Loader(cls, file_name, database_name, sql)
    /\ self' # self
    /\ last' = NoCall
    /\ UNCHANGED <<remote, file, procs>>

\* The remote source changes: its table, or whether it can be reached.
RemoteChange(r) ==
    /\ remote # r
    /\ remote' = r
    /\ last' = NoCall
    /\ UNCHANGED <<self, file, procs>>

\* One whole call self.get_data(use_cache, cache_data); wr is the file
\* system's answer to the write, should the call write.
GetData(use_cache, cache_data, wr) ==
    LET out == get_data(self, file, remote, use_cache, cache_data, wr)
    IN  /\ ValidAnswer(wr, out)
        /\ file' = out.load.file
        /\ last' = [called |-> TRUE, self |-> self, use_cache |-> use_cache,
                    cache_data |-> cache_data, pre |-> file,
                    again |-> /\ last.called
                              /\ last.use_cache = use_cache
                              /\ last.cache_data = cache_data,
                    prevRet |-> last.out.ret,
                    prevOk |-> last.called /\ last.out.load.raised = "",
                    prevPath |-> last.out.load.path,
                    out |-> out]
        /\ UNCHANGED <<self, remote, procs>>

Next ==
    \/ \E c \in Classes, f \in FileNames, d \in DataBases, q \in Sqls :
           Construct(c, f, d, q)
    \/ \E r \in RemoteStates : RemoteChange(r)
    \/ \E u \in BOOLEAN, c \in BOOLEAN, wr \in WriteAnswers : GetData(u, c, wr)

Spec == Init /\ [][Next]_vars

\* ------------------------------------------- two callers, statement by statement

\* The loaders of the two callers: the same file_name, either query.
ConcLoaders ==
    {Loader("Acquire", CachePath, "zillow", q) : q \in {"SELECT *", "SELECT * LIMIT 0"}}

\* A line of NUL bytes: what a file holds where no process wrote yet but a
\* later offset was written.
Hole == <<"NUL">>

\* write() of one line at line offset k of the file's content.
WriteAt(content, k, line) ==
    IF k <= Len(content) THEN [content EXCEPT ![k] = line]
    ELSE content \o [i \in 1..(k - 1 - Len(content)) |-> Hole] \o <<line>>

\* Mutant: the file is opened without truncating it (mode 'r+').
OpenWithoutTruncate(fl) == Present(fl.content)

\* open(path, 'w') as to_csv does: the file is created or truncated.
OpenForWrite(fl) == Present(<<>>)

\* Process p touched the file: no other process in to_csv is its only writer.
Disturb(ps, p) ==
    [q \in Procs |->
        IF q # p /\ ps[q].pc = "writing" THEN [ps[q] EXCEPT !.clean = FALSE]
        ELSE ps[q]]

\* The writer another process p would observe mid-write, if there is one.
WriterSeenBy(ps, p) ==
    IF \E q \in Procs : q # p /\ ps[q].pc = "writing"
    THEN LET q == CHOOSE q \in Procs : q # p /\ ps[q].pc = "writing"
         IN  [active |-> TRUE, lines |-> ps[q].lines, pos |-> ps[q].pos,
              before |-> ps[q].before, clean |-> ps[q].clean]
    ELSE NoWriter

\* p calls ldr.get_data(use_cache, cache_data).
CallGetData(p, ldr, use_cache, cache_data) ==
    /\ procs[p].pc = "idle"
    /\ procs' = [procs EXCEPT ![p] =
                    [IdleProc EXCEPT !.pc = "exists", !.self = ldr,
                                     !.use_cache = use_cache,
                                     !.cache_data = cache_data]]
    /\ UNCHANGED <<self, remote, file, last>>

\* Line 127: if os.path.exists(self.file_name) and use_cache.
Exists(p) ==
    /\ procs[p].pc = "exists"
    /\ procs' = [procs EXCEPT ![p].pc =
                    IF UseCacheBranch(path_exists(procs[p].self.file_name, file),
                                      procs[p].use_cache)
                    THEN "read_csv" ELSE "read_sql"]
    /\ UNCHANGED <<self, remote, file, last>>

\* Line 128: pd.read_csv(self.file_name) reads what the file holds now.
ReadCsv(p) ==
    /\ procs[p].pc = "read_csv"
    /\ procs' = [procs EXCEPT ![p] =
                    [@ EXCEPT !.seen = file,
                              !.during = WriterSeenBy(procs, p),
                              !.df = IF Parsable(file.content)
                                     THEN read_csv(file.content) ELSE NoDf,
                              !.pc = IF Parsable(file.content)
                                     THEN "hook" ELSE "raised"]]
    /\ UNCHANGED <<self, remote, file, last>>

\* Line 132: df = pd.read_sql(self.sql, get_db_url(self.database_name)).
ReadSql(p) ==
    LET got == read_sql(procs[p].self.sql, get_db_url(procs[p].self.database_name),
                        remote)
    IN  /\ procs[p].pc = "read_sql"
        /\ procs' = [procs EXCEPT ![p] =
                        [@ EXCEPT !.df = got.df,
                                  !.pc = IF ~got.ok THEN "raised"
                                         ELSE IF ShouldCache(procs[p].cache_data)
                                              THEN "open" ELSE "hook"]]
        /\ UNCHANGED <<self, remote, file, last>>

\* Line 136, to_csv opening the file.
ToCsvOpen(p) ==
    /\ procs[p].pc = "open"
    /\ file' = OpenForWrite(file)
    /\ procs' = [Disturb(procs, p) EXCEPT ![p] =
                    [@ EXCEPT !.pc = "writing",
                              !.lines = to_csv_lines(procs[p].df, ToCsvIndex),
                              !.pos = 0, !.before = file, !.clean = TRUE]]
    /\ UNCHANGED <<self, remote, last>>

\* Line 136, to_csv writing its next line at its own offset.
ToCsvWrite(p) ==
    /\ procs[p].pc = "writing"
    /\ procs[p].pos < Len(procs[p].lines)
    /\ file' = Present(WriteAt(file.content, procs[p].pos + 1,
                               procs[p].lines[procs[p].pos + 1]))
    /\ procs' = [Disturb(procs, p) EXCEPT ![p].pos = procs[p].pos + 1]
    /\ UNCHANGED <<self, remote, last>>

\* Line 136, to_csv closing the file; line 138 returns df.
ToCsvClose(p) ==
    /\ procs[p].pc = "writing"
    /\ procs[p].pos = Len(procs[p].lines)
    /\ procs' = [procs EXCEPT ![p].pc = "hook"]
    /\ UNCHANGED <<self, remote, file, last>>

\* Line 96: return self._pre_preparation(df).
PrePreparation(p) ==
    /\ procs[p].pc = "hook"
    /\ procs' = [procs EXCEPT ![p] =
                    [@ EXCEPT !.ret = pre_preparation(procs[p].self, procs[p].df),
                              !.pc = "done"]]
    /\ UNCHANGED <<self, remote, file, last>>

\* The caller takes the result, or the exception, and may call again.
Finish(p) ==
    /\ procs[p].pc \in {"done", "raised"}
    /\ procs' = [procs EXCEPT ![p] = IdleProc]
    /\ UNCHANGED <<self, remote, file, last>>

InitConc ==
    /\ self = Loader("Acquire", CachePath, "zillow", "SELECT *")
    /\ remote \in RemoteStates
    /\ file \in InitFiles
    /\ last = NoCall
    /\ procs = [p \in Procs |-> IdleProc]

NextConc ==
    \E p \in Procs :
        \/ \E l \in ConcLoaders, u \in BOOLEAN, c \in BOOLEAN : CallGetData(p, l, u, c)
        \/ Exists(p)
        \/ ReadCsv(p)
        \/ ReadSql(p)
        \/ ToCsvOpen(p)
        \/ ToCsvWrite(p)
        \/ ToCsvClose(p)
        \/ PrePreparation(p)
        \/ Finish(p)

SpecConc == InitConc /\ [][NextConc]_vars

\* ------------------------------------------------ properties: two callers

\* C10: nothing keeps a reader out while another process is inside to_csv:
\* a read_csv that runs then takes what the file holds at that instant,
\* which, the writer being the file's only writer since it opened it, is
\* the first pos lines of the writer's output and nothing of the old file.
C10_TornRead ==
    \A p \in Procs :
        (procs[p].pc \in {"hook", "done", "raised"} /\ procs[p].during.active
            /\ procs[p].during.clean) =>
            /\ procs[p].seen.exists
            /\ procs[p].seen.content =
                   Prefix(procs[p].during.lines, procs[p].during.pos)
            /\ procs[p].pc # "raised" => procs[p].df = read_csv(procs[p].seen.content)
            /\ procs[p].pc = "raised" => procs[p].during.pos = 0

\* A reader with use_cache = True returned a dataset that is neither the
\* dataset the file held before the writer opened it nor the writer's
\* complete output.
C10_Witness ==
    \E p \in Procs :
        /\ procs[p].pc = "done" /\ procs[p].use_cache
        /\ procs[p].during.active /\ procs[p].during.clean
        /\ procs[p].during.before.exists
        /\ Len(procs[p].during.before.content) > 1
        /\ procs[p].seen.content # procs[p].during.before.content
        /\ procs[p].seen.content # procs[p].during.lines
        /\ procs[p].ret = read_csv(procs[p].seen.content)
        /\ Len(procs[p].ret.rows) < Len(procs[p].during.lines) - 1


\* ------------------------------------------------- properties: one caller

\* The call just completed, _load_data's part of it, and what
\* os.path.exists(self.file_name) was when it started.
Call == last.out
Load == last.out.load
Existed == path_exists(last.self.file_name, last.pre)
Succeeded == last.called /\ Load.raised = ""
Hook(df) == pre_preparation(last.self, df)

\* Same column names and the same cell texts, row by row; dtypes may differ.
SameCells(d1, d2) == d1.columns = d2.columns /\ d1.rows = d2.rows

\* C1: a call with use_cache = True that finds a file at file_name performs
\* no remote fetch, leaves the file as it was and, the file being parsable,
\* returns (through the hook, the identity for Acquire) the DataFrame
\* read_csv makes of that file, whatever sql and database_name are.
C1_CacheHit ==
    (last.called /\ Existed /\ last.use_cache) =>
        /\ Load.path = "cache"
        /\ Load.fetches = 0
        /\ file = last.pre
        /\ Parsable(last.pre.content) =>
              /\ Load.raised = ""
              /\ Load.df = read_csv(last.pre.content)
              /\ Call.ret = Hook(read_csv(last.pre.content))
              /\ last.self.cls = "Acquire" => Call.ret = read_csv(last.pre.content)

\* A cache hit whose loader would have fetched something else from the remote.
C1_Witness ==
    /\ Succeeded /\ Existed /\ last.use_cache /\ last.cache_data
    /\ last.self.cls = "Acquire"
    /\ LET now == read_sql(last.self.sql, get_db_url(last.self.database_name), remote)
       IN  now.ok /\ ~SameCells(now.df, Call.ret)

\* C2 as stated: whenever the cache is not used (and the remote answers) the
\* call performs one fetch and returns the dataset that fetch produced.
C2_Original ==
    (last.called /\ ~(Existed /\ last.use_cache) /\ Load.fetched.ok) =>
        /\ Load.fetches = 1
        /\ Load.raised = ""
        /\ Call.ret = Hook(Load.fetched.df)

\* C2 amended: the number of fetches is 0 when the file exists and use_cache,
\* else 1; a call that took the remote path and completed returns the fetched
\* dataset; one that did not complete failed at the fetch or at the write.
C2_FetchCount ==
    last.called =>
        /\ Load.fetches = (IF Existed /\ last.use_cache THEN 0 ELSE 1)
        /\ (Load.fetches = 1) <=> (Load.path = "remote")
        /\ Load.path = "remote" =>
              /\ Load.fetched =
                     read_sql(last.self.sql, get_db_url(last.self.database_name), remote)
              /\ Load.raised = "" =>
                     /\ Load.fetched.ok
                     /\ Call.ret = Hook(Load.fetched.df)
              /\ Load.raised # "" =>
                     \/ ~Load.fetched.ok
                     \/ last.cache_data /\ Load.wr.kind \in {"open_err", "io_err"}

\* A fetch although the file exists (use_cache = False), and one with the
\* default '' file name, both completed.
C2_Witness ==
    /\ Succeeded /\ Load.fetches = 1
    /\ \/ last.pre.exists /\ last.self.file_name = CachePath /\ ~last.use_cache
       \/ last.self.file_name = "" /\ last.use_cache

\* C3: a call with cache_data = False leaves the file at file_name as it
\* was: absent if absent, the same content if present.
C3_NoWrite ==
    (last.called /\ ~last.cache_data) => file = last.pre /\ ~Load.wrote

\* A fetch that succeeded with cache_data = False.
C3_Witness ==
    /\ Succeeded /\ ~last.cache_data /\ Load.fetches = 1
    /\ last.self.file_name = CachePath
    /\ last.pre # Present(to_csv_lines(Load.fetched.df, FALSE))

\* C4: after a call that took the remote path with cache_data = True and
\* completed, the file exists and holds the fetched dataset: its header is
\* the dataset's columns (no index column), its lines the dataset's rows.
C4_CacheWritten ==
    (Succeeded /\ Load.path = "remote" /\ last.cache_data) =>
        /\ last.self.file_name = CachePath
        /\ file.exists
        /\ file.content = to_csv_lines(Load.fetched.df, FALSE)
        /\ Head(file.content) = Load.fetched.df.columns
        /\ Tail(file.content) = Load.fetched.df.rows

\* The file existed with other content, use_cache = False, and was replaced.
C4_Witness ==
    /\ Succeeded /\ Load.path = "remote" /\ last.cache_data
    /\ last.pre.exists /\ ~last.use_cache /\ file # last.pre
    /\ Len(file.content) > 1

C6_Order ==
    last.called =>
        /\ Succeeded =>
              /\ Call.steps =
                     <<"exists", IF Load.path = "cache" THEN "read_csv" ELSE "read_sql">>
                        \o (IF Load.wrote THEN <<"to_csv">> ELSE <<>>)
                        \o <<"_pre_preparation", "return">>
              /\ Call.hooks = 1
              /\ Call.ret = Hook(Load.df)
              /\ last.self.cls = "Acquire" => Call.ret = Load.df
        /\ ~Succeeded =>
              /\ Call.hooks = 0
              /\ \A i \in 1..Len(Call.steps) :
                     Call.steps[i] \notin {"_pre_preparation", "return"}
        /\ (Load.wrote /\ Load.wr.kind = "ok") =>
              file.content = to_csv_lines(Load.df, FALSE)
        /\ file # last.pre => Load.wrote

\* A child class's call that fetched, wrote and returned the hook's output,
\* which is not what the file holds.
C6_Witness ==
    /\ Succeeded /\ Load.wrote /\ last.self.cls = "Child"
    /\ Call.ret # Load.df
    /\ file.content # to_csv_lines(Call.ret, FALSE)

\* C7: when read_sql raises, the exception propagates: nothing is returned,
\* the hook is not run, to_csv is not called and the file is as it was.
C7_FetchFails ==
    (last.called /\ Load.path = "remote" /\ ~Load.fetched.ok) =>
        /\ Load.raised = "DatabaseError"
        /\ Call.ret = NoDf
        /\ Call.hooks = 0
        /\ ~Load.wrote
        /\ file = last.pre

\* A failed fetch with cache_data = True over an existing, non-empty file.
C7_Witness ==
    /\ last.called /\ Load.path = "remote" /\ ~Load.fetched.ok
    /\ last.cache_data /\ last.pre.exists /\ Len(last.pre.content) > 0

\* C8: a call returns a dataset only if every read or write it attempted
\* succeeded; an unparsable file with use_cache fails the call without a
\* fetch; a failed write (always, for file_name '') fails the call although
\* the fetch succeeded.
C8_NoSwallow ==
    last.called =>
        /\ Succeeded =>
              /\ Load.path = "cache" => Parsable(last.pre.content)
              /\ Load.path = "remote" => Load.fetched.ok
              /\ Load.wrote => Load.wr.kind = "ok"
        /\ (Existed /\ last.use_cache /\ ~Parsable(last.pre.content)) =>
              /\ Load.raised = "EmptyDataError"
              /\ Load.fetches = 0
              /\ Call.ret = NoDf
        /\ (Load.fetched.ok /\ Load.wrote /\ Load.wr.kind # "ok") =>
              /\ Load.raised = "OSError"
              /\ Call.ret = NoDf
        /\ (Load.fetched.ok /\ last.cache_data /\ last.self.file_name = "") =>
              /\ Load.wrote
              /\ Load.raised = "OSError"

\* The fetch succeeded, the write to '' failed, nothing was returned.
C8_Witness ==
    /\ last.called /\ Load.fetched.ok /\ last.self.file_name = ""
    /\ last.cache_data /\ Load.raised = "OSError" /\ Len(Load.fetched.df.rows) > 0

\* C9: no step removes the file; it comes into existence, and its content
\* changes, only in a call that took the remote path with cache_data = True
\* and whose fetch succeeded.
C9_NeverDeleted ==
    [][/\ file.exists => file'.exists
       /\ file' # file =>
             /\ last'.called
             /\ last'.out.load.path = "remote"
             /\ last'.cache_data
             /\ last'.out.load.fetched.ok
             /\ last'.out.load.wrote]_vars

\* The file was absent before the call and exists after it.
C9_Witness ==
    /\ last.called /\ ~last.pre.exists /\ file.exists /\ Succeeded

====
